---- MODULE Spec2Model ----
(***************************************************************************)
(* Model of the `validate` attribute macro of zbus-lockstep-macros         *)
(* (src/zbus-lockstep-macros/src/lib.rs): the location of the XML          *)
(* directory (resolve_xml_path) and the scan of the XML files for the      *)
(* signal a struct mirrors.                                                *)
(*                                                                         *)
(* Strings that are searched (signal names, the struct's identifier) are   *)
(* sequences of characters, so that str::contains is computed.  Paths and  *)
(* interface names are only stored and compared and are TLA+ strings.      *)
(* An Option<T> is [some |-> FALSE] or [some |-> TRUE, val |-> v].         *)
(***************************************************************************)
EXTENDS Naturals, Sequences, FiniteSets, TLC

VARIABLES
    \* resolve_xml_path and its environment
    args_xml,        \* args.xml as parsed from the attribute
    xml,             \* validate's `let mut xml`
    env_xml_path,    \* the variable ZBUS_LOCKSTEP_XML_PATH
    exists_xml,      \* <cwd>/xml exists
    exists_XML,      \* <cwd>/XML exists
    \* the hint
    item_name,       \* item_struct.ident.to_string()
    signal_arg,      \* args.signal
    interface,       \* args.interface
    \* the documents
    xml_files,       \* HashMap<PathBuf, String>, each value as parsed
    \* the scan
    remaining,       \* keys the HashMap iterator has not yielded yet
    path_key,        \* key of the file being scanned
    idx,             \* position in that file's signals, in loop order
    signal_name,
    interface_name,
    xml_path,
    pc,
    result

vars == << args_xml, xml, env_xml_path, exists_xml, exists_XML,
           item_name, signal_arg, interface, xml_files,
           remaining, path_key, idx, signal_name, interface_name, xml_path,
           pc, result >>

pathVars == << args_xml, xml, env_xml_path, exists_xml, exists_XML >>
hintVars == << item_name, signal_arg, interface, xml_files >>
scanVars == << remaining, path_key, idx, signal_name, interface_name, xml_path >>

----------------------------------------------------------------------------
(* Option<T> *)

None == [some |-> FALSE]
Some(v) == [some |-> TRUE, val |-> v]
Opt(S) == {None} \cup {Some(v) : v \in S}

----------------------------------------------------------------------------
(* Bounds and input sets *)

\* Total number of signals declared by the files of one directory.
MaxSignals == 3

Paths == {"a.xml", "b.xml"}
IfaceNames == {"org.a", "org.b"}
\* The values of the `interface` argument; the interface names of the
\* documents are symmetric, so one of them stands for both.
InterfaceArgs == {"org.a"}
SignalNames == { <<"U", "p">>, <<"D", "n">>, <<"O", "f", "f">> }
ItemNames == { <<"U", "p", "D", "n", "E", "v">>, <<"O", "f", "f", "E", "v">> }

CwdLower == "cwd/xml"
CwdUpper == "cwd/XML"
ArgPaths == {"tests/xml", "cwd/xml"}
EnvPaths == {"env/xml", "tests/xml"}

----------------------------------------------------------------------------
(* The documents: a Node is a sequence of interfaces, an interface has a   *)
(* name and a sequence of signal names.                                    *)

RECURSIVE NodesWith(_)
\* The nodes that declare exactly n signals, in interfaces of at least one.
NodesWith(n) ==
    IF n = 0 THEN { <<>> }
    ELSE UNION { { << [name |-> nm, signals |-> s] >> \o d :
                       nm \in IfaceNames,
                       s \in [1..k -> SignalNames],
                       d \in NodesWith(n - k) } : k \in 1..n }

RECURSIVE FileMaps(_, _)
\* The maps from the paths S to nodes that declare at most n signals in all.
FileMaps(S, n) ==
    IF S = {} THEN { <<>> }
    ELSE LET p == CHOOSE q \in S : TRUE
         IN UNION { { (p :> d) @@ f :
                          d \in NodesWith(k),
                          f \in FileMaps(S \ {p}, n - k) } : k \in 0..n }

RECURSIVE FlatSignals(_)
\* for interface in node.interfaces() { for signal in interface.signals() }
\* visits these (interface name, signal name) pairs in this order.
FlatSignals(node) ==
    IF node = <<>> THEN <<>>
    ELSE [k \in 1..Len(Head(node).signals) |->
              [interface |-> Head(node).name, signal |-> Head(node).signals[k]]]
         \o FlatSignals(Tail(node))

----------------------------------------------------------------------------
(* The loop body of the scan, lines 133-165 *)

\* str::contains: needle occurs in haystack as a contiguous run.
ContainsPrefixOnly(haystack, needle) ==
    /\ Len(needle) <= Len(haystack)
    /\ SubSeq(haystack, 1, Len(needle)) = needle

Contains(haystack, needle) ==
    \E i \in 0..Len(haystack) :
        /\ i + Len(needle) <= Len(haystack)
        /\ SubSeq(haystack, i + 1, i + Len(needle)) = needle

\* The recorded triple, and whether the scan returned the ambiguity error.
ScanState(i, s, x, f) ==
    [interface_name |-> i, signal_name |-> s, xml_path |-> x, failed |-> f]

Ambiguous(st) == [st EXCEPT !.failed = TRUE]

RecordWithoutPath(st, key, iface, xml_signal_name) ==
    [st EXCEPT !.interface_name = Some(iface),
               !.signal_name = Some(xml_signal_name)]

\* interface_name = Some(..); signal_name = Some(..); xml_path = Some(..)
Record(st, key, iface, xml_signal_name) ==
    [st EXCEPT !.interface_name = Some(iface),
               !.signal_name = Some(xml_signal_name),
               !.xml_path = Some(key)]

\* if signal_arg.is_some() && signal_name == signal_arg { .. }
\* The condition compares the recorded signal_name, not xml_signal_name.
ExplicitBranch(st, key, iface, xml_signal_name) ==
    IF signal_arg.some /\ st.signal_name = signal_arg
    THEN IF st.interface_name.some
         THEN Ambiguous(st)
         ELSE Record(st, key, iface, xml_signal_name)
    ELSE st

\* if item_name.contains(xml_signal_name) { .. }
ImplicitBranch(st, key, iface, xml_signal_name) ==
    IF Contains(item_name, xml_signal_name)
    THEN IF st.interface_name.some
         THEN Ambiguous(st)
         ELSE Record(st, key, iface, xml_signal_name)
    ELSE st

LoopBody(st, key, iface, xml_signal_name) ==
    LET e == ExplicitBranch(st, key, iface, xml_signal_name)
    IN IF e.failed THEN e ELSE ImplicitBranch(e, key, iface, xml_signal_name)

----------------------------------------------------------------------------
(* After the scan, lines 170-211 *)

ItemNameOnly == item_name

\* signal_arg.unwrap_or_else(|| item_name.clone())
HintName == IF signal_arg.some THEN signal_arg.val ELSE item_name

AmbiguityError == [kind |-> "AmbiguityError"]
NotFound(k) == [kind |-> k, name |-> HintName]
Resolved(st) ==
    [kind |-> "Ok",
     interface_name |-> st.interface_name.val,
     signal_name |-> st.signal_name.val,
     xml_path |-> st.xml_path.val]

PostScanSignalFirst(st) ==
    IF ~st.signal_name.some THEN NotFound("NoSignalFound")
    ELSE IF ~st.interface_name.some THEN NotFound("NoInterfaceFound")
    ELSE IF ~st.xml_path.some THEN NotFound("NoDocumentFound")
    ELSE Resolved(st)

PostScan(st) ==
    IF ~st.interface_name.some THEN NotFound("NoInterfaceFound")
    ELSE IF ~st.signal_name.some THEN NotFound("NoSignalFound")
    ELSE IF ~st.xml_path.some THEN NotFound("NoDocumentFound")
    ELSE Resolved(st)

Pending == [kind |-> "Pending"]

----------------------------------------------------------------------------
(* The scan as a process: validate from line 120 on *)

NoPath == ""

Cur == ScanState(interface_name, signal_name, xml_path, FALSE)

AtSignal == FlatSignals(xml_files[path_key])[idx]

Init ==
    /\ args_xml = Some("tests/xml")
    /\ xml = Some("tests/xml")
    /\ env_xml_path = None
    /\ exists_xml = FALSE
    /\ exists_XML = FALSE
    /\ item_name \in ItemNames
    /\ signal_arg \in Opt(SignalNames)
    /\ interface \in Opt(InterfaceArgs)
    /\ \E S \in SUBSET Paths : xml_files \in FileMaps(S, MaxSignals)
    /\ remaining = DOMAIN xml_files
    /\ path_key = NoPath
    /\ idx = 0
    /\ signal_name = None
    /\ interface_name = interface
    /\ xml_path = None
    /\ pc = "for_files"
    /\ result = Pending

\* for (path_key, xml_string) in xml_files: the HashMap yields its next key.
NextFile ==
    /\ pc = "for_files"
    /\ \E p \in remaining :
        /\ path_key' = p
        /\ remaining' = remaining \ {p}
        /\ IF FlatSignals(xml_files[p]) = <<>>
           THEN pc' = "for_files" /\ idx' = 0
           ELSE pc' = "for_signals" /\ idx' = 1
    /\ UNCHANGED << signal_name, interface_name, xml_path, result >>
    /\ UNCHANGED << pathVars, hintVars >>

\* One pass of the body of `for signal in signals`.
ScanSignal ==
    /\ pc = "for_signals"
    /\ LET st == LoopBody(Cur, path_key, AtSignal.interface, AtSignal.signal)
       IN IF st.failed
          THEN /\ result' = AmbiguityError
               /\ pc' = "done"
               /\ UNCHANGED << signal_name, interface_name, xml_path, idx >>
          ELSE /\ interface_name' = st.interface_name
               /\ signal_name' = st.signal_name
               /\ xml_path' = st.xml_path
               /\ result' = result
               /\ IF idx < Len(FlatSignals(xml_files[path_key]))
                  THEN idx' = idx + 1 /\ pc' = pc
                  ELSE idx' = 0 /\ pc' = "for_files"
    /\ UNCHANGED << remaining, path_key >>
    /\ UNCHANGED << pathVars, hintVars >>

\* The loop over xml_files is over: the checks of lines 171-211.
FinishScan ==
    /\ pc = "for_files"
    /\ remaining = {}
    /\ result' = PostScan(Cur)
    /\ pc' = "done"
    /\ UNCHANGED << scanVars, pathVars, hintVars >>

Next == NextFile \/ ScanSignal \/ FinishScan

Spec == Init /\ [][Next]_vars

----------------------------------------------------------------------------
(* resolve_xml_path, lines 302-324, and validate's check of its result *)

EnvOnlyIfNone(x) ==
    IF env_xml_path.some /\ ~x.some THEN env_xml_path ELSE x

\* if let Ok(env_path_xml) = std::env::var(..) { *xml = Some(..) }
EnvApplied(x) ==
    IF env_xml_path.some THEN env_xml_path ELSE x

InitPath ==
    /\ args_xml \in Opt(ArgPaths)
    /\ xml = args_xml
    /\ env_xml_path \in Opt(EnvPaths)
    /\ exists_xml \in BOOLEAN
    /\ exists_XML \in BOOLEAN
    /\ item_name = <<"U", "p">>
    /\ signal_arg = None
    /\ interface = None
    /\ xml_files = <<>>
    /\ remaining = {}
    /\ path_key = NoPath
    /\ idx = 0
    /\ signal_name = None
    /\ interface_name = None
    /\ xml_path = None
    /\ pc = "resolve"
    /\ result = Pending

\* if xml.is_none() { .. }
EnterDefaults ==
    /\ pc = "resolve"
    /\ pc' = IF xml.some THEN "env" ELSE "default_lower"
    /\ UNCHANGED << pathVars, hintVars, scanVars, result >>

\* path.push("xml"); if path.exists() { *xml = Some(path.clone()) }
DefaultLower ==
    /\ pc = "default_lower"
    /\ xml' = IF exists_xml THEN Some(CwdLower) ELSE xml
    /\ pc' = "default_upper"
    /\ UNCHANGED << args_xml, env_xml_path, exists_xml, exists_XML >>
    /\ UNCHANGED << hintVars, scanVars, result >>

\* path.pop(); path.push("XML"); if path.exists() { *xml = Some(path) }
DefaultUpper ==
    /\ pc = "default_upper"
    /\ xml' = IF exists_XML THEN Some(CwdUpper) ELSE xml
    /\ pc' = "env"
    /\ UNCHANGED << args_xml, env_xml_path, exists_xml, exists_XML >>
    /\ UNCHANGED << hintVars, scanVars, result >>

EnvOverride ==
    /\ pc = "env"
    /\ xml' = EnvApplied(xml)
    /\ pc' = "returned"
    /\ UNCHANGED << args_xml, env_xml_path, exists_xml, exists_XML >>
    /\ UNCHANGED << hintVars, scanVars, result >>

\* validate, lines 71-91: no path at all is an error, else the directory is read.
CheckXml ==
    /\ pc = "returned"
    /\ IF xml.some
       THEN pc' = "read_dir" /\ result' = result
       ELSE pc' = "done" /\ result' = [kind |-> "NoXmlPath"]
    /\ UNCHANGED << pathVars, hintVars, scanVars >>

NextPath == EnterDefaults \/ DefaultLower \/ DefaultUpper \/ EnvOverride \/ CheckXml

SpecPath == InitPath /\ [][NextPath]_vars

----------------------------------------------------------------------------
(* The scan as a function of the order in which the HashMap yields its keys *)

RECURSIVE ScanFrom(_, _, _)
\* The loops over one file's interfaces and signals, from position k on.
ScanFrom(st, key, k) ==
    IF st.failed \/ k > Len(FlatSignals(xml_files[key])) THEN st
    ELSE LET s == FlatSignals(xml_files[key])[k]
         IN ScanFrom(LoopBody(st, key, s.interface, s.signal), key, k + 1)

RECURSIVE ScanFiles(_, _)
\* The loop over xml_files, visiting the keys in the given order.
ScanFiles(st, order) ==
    IF st.failed \/ order = <<>> THEN st
    ELSE ScanFiles(ScanFrom(st, Head(order), 1), Tail(order))

\* What validate resolves to when the HashMap yields its keys in this order.
Outcome(order) ==
    LET st == ScanFiles(ScanState(interface, None, None, FALSE), order)
    IN IF st.failed THEN AmbiguityError ELSE PostScan(st)

\* The orders in which a HashMap with these keys can be iterated.
Orders(S) ==
    { o \in [1..Cardinality(S) -> S] : \A a, b \in DOMAIN o : o[a] = o[b] => a = b }

----------------------------------------------------------------------------
(* The signals of the directory, each named by its file and its position *)

Positions ==
    UNION { { << p, k >> : k \in 1..Len(FlatSignals(xml_files[p])) } :
              p \in DOMAIN xml_files }

NameAt(pos) == FlatSignals(xml_files[pos[1]])[pos[2]].signal
IfaceAt(pos) == FlatSignals(xml_files[pos[1]])[pos[2]].interface

ExplicitMatches(n) == signal_arg.some /\ signal_arg.val = n
\* n is a substring of h: h is some prefix, then n, then some suffix.
IsSubstring(n, h) ==
    \E a, b \in 0..Len(h) : a <= b /\ n = [k \in 1..(b - a) |-> h[a + k]]

ImplicitMatches(n) == IsSubstring(n, item_name)

ExplicitMatching == { pos \in Positions : ExplicitMatches(NameAt(pos)) }
ImplicitMatching == { pos \in Positions : ImplicitMatches(NameAt(pos)) }
Matching == ExplicitMatching \cup ImplicitMatching

ResolvedTo(pos) ==
    [kind |-> "Ok", interface_name |-> IfaceAt(pos),
     signal_name |-> NameAt(pos), xml_path |-> pos[1]]

NotFoundKinds == {"NoInterfaceFound", "NoSignalFound", "NoDocumentFound"}

----------------------------------------------------------------------------
(* Claims *)

\* C1: for fixed documents and a fixed hint the outcome of the resolution is
\* the same for every order in which the HashMap of files is iterated: the
\* outcome of a finished run equals the outcome under every other order.
C1_Determinism ==
    pc = "done" => \A o \in Orders(DOMAIN xml_files) : Outcome(o) = result

\* C2: whenever two distinct signals of the directory match the hint, by the
\* explicit signal name or by being a substring of the struct's identifier,
\* the resolution ends with the ambiguity error.
C2_Uniqueness ==
    (pc = "done" /\ Cardinality(Matching) >= 2) => result.kind = "AmbiguityError"

\* C3: when an explicit signal name is supplied and the scanned signal's name
\* equals it while no match is recorded yet, the pass over that signal
\* records it (interface name, signal name, file), whether or not its name is
\* contained in the struct's identifier.
C3_ExplicitMatch ==
    [][ ( /\ pc = "for_signals"
          /\ signal_arg.some
          /\ AtSignal.signal = signal_arg.val
          /\ ~interface_name.some
          /\ ~signal_name.some )
        => ( /\ interface_name' = Some(AtSignal.interface)
             /\ signal_name' = Some(AtSignal.signal)
             /\ xml_path' = Some(path_key) ) ]_vars

\* C4: when signals whose names are contained in the struct's identifier
\* exist in more than one interface and `interface` names one of these
\* interfaces, the resolution succeeds and binds the named interface.
C4_InterfaceDisambiguates ==
    ( /\ pc = "done"
      /\ interface.some
      /\ Cardinality({ IfaceAt(pos) : pos \in ImplicitMatching }) >= 2
      /\ interface.val \in { IfaceAt(pos) : pos \in ImplicitMatching } )
    => (result.kind = "Ok" /\ result.interface_name = interface.val)

\* The case of C5: an explicit signal name that no signal bears, and no
\* signal name contained in the struct's identifier.
C5_Case ==
    /\ pc = "done"
    /\ signal_arg.some
    /\ ExplicitMatching = {}
    /\ ImplicitMatching = {}

\* C5 as stated: in that case the resolution fails with NoSignalFound
\* carrying the explicit signal name.
C5_NoSignalFound_Original ==
    C5_Case => result = [kind |-> "NoSignalFound", name |-> signal_arg.val]

\* C5 as amended: in that case the resolution fails with a not-found error
\* carrying the explicit signal name, NoInterfaceFound when no interface
\* name was supplied and NoSignalFound when one was.
C5_NotFoundCarriesSignalArg ==
    C5_Case =>
        result = [kind |-> IF interface.some THEN "NoSignalFound"
                           ELSE "NoInterfaceFound",
                  name |-> signal_arg.val]

C5_Witness ==
    /\ C5_Case
    /\ ~interface.some
    /\ Cardinality(Positions) >= 2
    /\ result.kind = "NoInterfaceFound"

\* C6: without explicit signal name and interface name, when exactly one
\* signal of the directory has a name contained in the struct's identifier,
\* the resolution succeeds with that signal's interface name, its name and
\* the file that declares it.
C6_ImplicitMatchSuccess ==
    ( /\ pc = "done"
      /\ ~signal_arg.some
      /\ ~interface.some
      /\ Cardinality(ImplicitMatching) = 1 )
    => \A pos \in ImplicitMatching : result = ResolvedTo(pos)

C6_Witness ==
    /\ pc = "done"
    /\ ~signal_arg.some
    /\ ~interface.some
    /\ Cardinality(ImplicitMatching) = 1
    /\ Cardinality(Positions) = 3
    /\ Cardinality(DOMAIN xml_files) = 2
    /\ \E pos \in ImplicitMatching : pos[2] = 2 /\ result = ResolvedTo(pos)

\* C7: once resolve_xml_path has returned, xml is the environment variable
\* when it is set, else the path argument when it was given, else a default
\* directory that exists, else none.
C7_PathPrecedence ==
    pc \in {"returned", "read_dir", "done"} =>
        IF env_xml_path.some THEN xml = env_xml_path
        ELSE IF args_xml.some THEN xml = args_xml
        ELSE IF exists_xml \/ exists_XML
             THEN /\ xml.some
                  /\ \/ xml.val = CwdLower /\ exists_xml
                     \/ xml.val = CwdUpper /\ exists_XML
        ELSE xml = None

C7_Witness ==
    /\ pc = "returned"
    /\ env_xml_path.some
    /\ args_xml.some
    /\ env_xml_path # args_xml
    /\ exists_xml
    /\ xml = env_xml_path

\* C8: every not-found failure carries the explicit signal name when one was
\* supplied and the struct's identifier otherwise.
C8_NotFoundCarriesHint ==
    (pc = "done" /\ result.kind \in NotFoundKinds) =>
        result.name = (IF signal_arg.some THEN signal_arg.val ELSE item_name)

C8_Witness ==
    /\ pc = "done"
    /\ result.kind = "NoSignalFound"
    /\ signal_arg.some
    /\ signal_arg.val # item_name
    /\ Positions # {}
    /\ result.name = signal_arg.val

\* C9: throughout the scan the file is recorded exactly when the signal name
\* is, and no run ends with NoDocumentFound.
C9_NoDocumentFoundUnreachable ==
    /\ xml_path.some <=> signal_name.some
    /\ result.kind # "NoDocumentFound"
    /\ signal_name.some => interface_name.some

C9_Witness ==
    /\ pc = "for_signals"
    /\ signal_name.some
    /\ xml_path.some
    /\ interface_name.some

\* C10: the pass over a signal whose name neither equals the explicit signal
\* name nor is contained in the struct's identifier leaves the recorded
\* interface name, signal name and file unchanged and does not fail.
C10_NonMatchingInert ==
    [][ ( /\ pc = "for_signals"
          /\ ~ExplicitMatches(AtSignal.signal)
          /\ ~ImplicitMatches(AtSignal.signal) )
        => ( /\ interface_name' = interface_name
             /\ signal_name' = signal_name
             /\ xml_path' = xml_path
             /\ result' = Pending ) ]_vars

====
